---- MODULE Spec2Model ----
(***************************************************************************)
(* State-machine model of the SPA navigation Router of 0cfg-ui            *)
(* (src/unnamed/part_001, lines 14-233: Router.ts).                       *)
(*                                                                         *)
(* JavaScript is single threaded: every action below is one synchronous   *)
(* run of code, from an entry point (a public method called by the         *)
(* application, a browser event, the settling of a promise) up to the     *)
(* next await.  The router's methods are written as operators over a      *)
(* record of the whole program state, so that a handler that calls back   *)
(* into the router while it is being dispatched re-enters the very same   *)
(* code.                                                                   *)
(***************************************************************************)
EXTENDS Naturals, Sequences, FiniteSets

VARIABLES
    address,            \* the url the address bar shows; window.location is Location(address)
    pushes,             \* number of entries added to the session history by history.pushState
    urlChangeListeners, \* Router.urlChangeListeners: sequence of Detours
    routingQueue,       \* Router.routingQueue: pending snapshots, oldest first
    routing,            \* Router.routing
    loops,              \* activations of the async consumer function (lines 195-201): where
                        \* each stands (pc), the snapshot and Detour index it is at, and the
                        \* url the address bar showed when it called the handler it awaits
    running,            \* handler invocations whose promise is still pending
    failed,             \* handler invocations whose promise was rejected (or that threw)
    log,                \* what happened so far: handler calls ("start", with the argument
                        \* passed and window.location at that moment), their settlements
                        \* ("end", "fail") and completed execRoute runs ("routed")
    captured,           \* window.location at each call of enqueueCurrentRoute, in call order
    basePath,           \* the basePath argument the router was created with
    unloaded,           \* the unload event the window received last, as it was after its
                        \* dispatch (a sequence of one event; empty before the first)
    synthesized,        \* number of popstate events the unload listener dispatched for it
    registered,         \* history of the onUrlChange calls that were observed: for each, how
                        \* long the log was, how many enqueueCurrentRoute calls had been made
                        \* and how many activations of the consumer function had been begun
    composed,           \* the segments the url given to getUrlParams was written from
    urlArgument,        \* the url given to getUrlParams
    returned,           \* what the getUrlParams call yielded (a sequence of one outcome; empty
                        \* before the call)
    predicate,          \* a predicate built by path, regex or glob (with the RegExp object it
                        \* holds)
    evaluations,        \* the calls of that predicate so far: snapshot given, result returned
    renderedPromise,    \* HtmlComponent.renderedPromise (resolveRendered resolves it): an
                        \* index of promises
    visibilityChangeListeners, \* HtmlComponent.visibilityChangeListeners
    visibilityState,    \* HtmlComponent.visibilityState
    element,            \* HtmlComponent.element: an index of elements, 0 for undefined
    hideWhenRendered,   \* HtmlComponent.hideWhenRendered
    renderedOnce,       \* HtmlComponent.renderedOnce
    promises,           \* the promises made for renderedPromise: whether each is resolved,
                        \* and how many renders had succeeded when rendered() first returned it
    elements,           \* the div elements the component created: whether each is in the document
    renderings,         \* the calls of renderTo: where each stands, and whether it called
                        \* beforeFirstRender
    timers,             \* pending timeouts of destroy(true)
    notifications       \* the calls of visibility-change listeners the latest operation on
                        \* the component made: the listener, the value passed, and
                        \* visibilityState as it was when the operation began

\* the router and its window
routerVars == <<address, pushes, urlChangeListeners, routingQueue, routing, loops, running, failed, log,
                captured, basePath, unloaded, synthesized, registered>>

\* a call of the utility getUrlParams
paramsVars == <<composed, urlArgument, returned>>

\* a predicate of the application and its use
predicateVars == <<predicate, evaluations>>

\* an HtmlComponent without a parent
componentVars == <<renderedPromise, visibilityChangeListeners, visibilityState, element,
                   hideWhenRendered, renderedOnce, promises, elements, renderings, timers,
                   notifications>>

vars == <<routerVars, paramsVars, predicateVars, componentVars>>

-----------------------------------------------------------------------------
\* Bounds of the exploration.

\* number of enqueueCurrentRoute calls explored (direct, navigateTo, popstate, from a handler)
MaxEnq == 2
\* number of history.pushState calls explored
MaxPush == 1
\* number of Detours registered
MaxDetours == 2

\* capacity handed to the BufferQueue constructor
ROUTING_QUEUE_LENGTH == 20

-----------------------------------------------------------------------------
\* The browser: urls and the Location object they resolve to.

Urls == {"/a", "/b?q=1"}

InitialUrl == "/a"

\* values of the basePath argument of Router.create
BasePaths == {"/", "/b"}

\* window.location once the address bar shows url u (origin http://x)
Location(u) ==
    CASE u = "/a" ->
            [hash |-> "", host |-> "x", hostname |-> "x", href |-> "http://x/a",
             origin |-> "http://x", pathname |-> "/a", port |-> "",
             protocol |-> "http:", search |-> ""]
      [] u = "/b?q=1" ->
            [hash |-> "", host |-> "x", hostname |-> "x", href |-> "http://x/b?q=1",
             origin |-> "http://x", pathname |-> "/b", port |-> "",
             protocol |-> "http:", search |-> "?q=1"]

\* the whole program state as one value
St ==
    [address |-> address, pushes |-> pushes, urlChangeListeners |-> urlChangeListeners,
     routingQueue |-> routingQueue, routing |-> routing, loops |-> loops,
     running |-> running, failed |-> failed, log |-> log, captured |-> captured,
     basePath |-> basePath, unloaded |-> unloaded, synthesized |-> synthesized,
     registered |-> registered]

\* the next state is s
Becomes(s) ==
    /\ address' = s.address
    /\ pushes' = s.pushes
    /\ urlChangeListeners' = s.urlChangeListeners
    /\ routingQueue' = s.routingQueue
    /\ routing' = s.routing
    /\ loops' = s.loops
    /\ running' = s.running
    /\ failed' = s.failed
    /\ log' = s.log
    /\ captured' = s.captured
    /\ basePath' = s.basePath
    /\ unloaded' = s.unloaded
    /\ synthesized' = s.synthesized
    /\ registered' = s.registered
    /\ UNCHANGED <<paramsVars, predicateVars, componentVars>>

\* window.location in state s
windowLocation(s) == Location(s.address)

\* history.pushState({url}, '', url): one more history entry, which the address bar shows
pushState(s, u) == [s EXCEPT !.address = u, !.pushes = @ + 1]

-----------------------------------------------------------------------------
\* Snapshots and predicates.

\* serialize: copies nine string fields of the Location object
serialize(location) ==
    [hash |-> location.hash,
     hostname |-> location.hostname,
     pathname |-> location.pathname,
     search |-> location.search,
     host |-> location.host,
     href |-> location.href,
     origin |-> location.origin,
     port |-> location.port,
     protocol |-> location.protocol]

\* a Detour registered without a condition
NoCondition == [kind |-> "undefined", arg |-> ""]

\* path(p): exact comparison with location.pathname
path(p) == [kind |-> "path", arg |-> p]

\* has(x): x is neither undefined nor null
has(condition) == condition.kind # "undefined"

\* variant: a slash at the end of the pathname is ignored
TestIgnoresLastSlash(condition, location) ==
    CASE condition.kind = "path" ->
            condition.arg = location.pathname \/ condition.arg \o "/" = location.pathname

\* variant: the outcome of the predicate is inverted
TestNegated(condition, location) ==
    CASE condition.kind = "path" -> condition.arg # location.pathname

\* calling a predicate on a snapshot
Test(condition, location) ==
    CASE condition.kind = "path" -> condition.arg = location.pathname

Conditions == {NoCondition, path("/a")}

\* What a listener does synchronously when called: "h" only starts its own work,
\* "nav" also calls router.enqueueCurrentRoute() before returning.
Handlers == {"h", "nav"}

\* the url a "go" listener navigates to
Target == "/b?q=1"

\* Listeners that call back into the router when called: "nav" as above, "go"
\* calls router.navigateTo(Target) before returning.
ReentrantHandlers == {"nav", "go"}

-----------------------------------------------------------------------------
\* BufferQueue<SerializableLocation> as the router uses it; the model stays
\* below the capacity given at construction.

push(q, item) == Append(q, item)

size(q) == Len(q)

isEmpty(q) == Len(q) = 0

\* pop() returns the oldest item; the queue keeps the rest
popItem(q) == Head(q)

popRest(q) == Tail(q)

-----------------------------------------------------------------------------
\* The router's methods, as functions of the program state.

RECURSIVE enqueueCurrentRoute(_)
RECURSIVE consumerLoop(_)
RECURSIVE whileLoop(_, _)
RECURSIVE execRoute(_, _, _)
RECURSIVE callHandler(_, _)

\* variant: the handler is given a snapshot taken when it is called
handlerArgumentLive(s, item) == serialize(windowLocation(s))

\* the value execRoute hands to a handler (line 207): the queued snapshot
handlerArgument(s, item) == item.loc

\* variant: the test of line 192 without the routing flag
onlyPushSizeOnly(s) == size(s.routingQueue) # 1

\* variant: enqueueCurrentRoute without the return of line 193
onlyPushNever(s) == FALSE

\* the condition of line 192 under which enqueueCurrentRoute only pushes
onlyPush(s) == size(s.routingQueue) # 1 \/ s.routing

\* variant: the new Detour is put in front of the list
onUrlChangeInFront(s, listener, condition) ==
    [s EXCEPT !.urlChangeListeners = <<[handler |-> listener, condition |-> condition]>> \o @]

\* Router.onUrlChange(listener, condition); the router it returns is the one it was
\* called on
onUrlChange(s, listener, condition) ==
    [s EXCEPT !.urlChangeListeners = Append(@, [handler |-> listener, condition |-> condition])]

\* variant: setUrl also dispatches
setUrlDispatching(s, url) == enqueueCurrentRoute(pushState(s, url))

\* Router.setUrl(url)
setUrl(s, url) == pushState(s, url)

\* variant: the two calls of navigateTo in the other order
navigateToEnqueueFirst(s, url) == pushState(enqueueCurrentRoute(s), url)

\* Router.navigateTo(url)
navigateTo(s, url) == enqueueCurrentRoute(setUrl(s, url))

\* Router.enqueueCurrentRoute(): lines 191-194, then the async function
enqueueCurrentRoute(s) ==
    LET item == [loc |-> serialize(windowLocation(s)), id |-> Len(s.captured) + 1]
        s1 == [s EXCEPT !.routingQueue = push(@, item),
                        !.captured = Append(@, windowLocation(s))]
    IN  IF onlyPush(s1) THEN s1 ELSE consumerLoop(s1)

\* variant: the async function without the assignment of line 196
consumerLoopNoFlag(s) ==
    LET l == Len(s.loops) + 1
        s1 == [s EXCEPT !.loops = Append(@, [pc |-> "start", item |-> <<>>, idx |-> 0, at |-> ""])]
    IN  whileLoop(s1, l)

\* the async function of lines 195-201, from its call to its first await
consumerLoop(s) ==
    LET l == Len(s.loops) + 1
        s1 == [s EXCEPT !.routing = TRUE,
                        !.loops = Append(@, [pc |-> "start", item |-> <<>>, idx |-> 0, at |-> ""])]
    IN  whileLoop(s1, l)

\* variant: an if in place of the while of line 197
whileLoopIfOnly(s, l) ==
    IF ~isEmpty(s.routingQueue) /\ s.loops[l].pc = "start"
    THEN LET item == popItem(s.routingQueue)
             s1 == [s EXCEPT !.routingQueue = popRest(@),
                             !.loops[l] = [pc |-> "exec", item |-> <<item>>, idx |-> 0, at |-> ""]]
         IN  execRoute(s1, l, 1)
    ELSE [s EXCEPT !.routing = FALSE, !.loops[l].pc = "done"]

\* variant: the while statement without the assignment of line 200
whileLoopKeepsFlag(s, l) ==
    IF ~isEmpty(s.routingQueue)
    THEN LET item == popItem(s.routingQueue)
             s1 == [s EXCEPT !.routingQueue = popRest(@),
                             !.loops[l] = [pc |-> "exec", item |-> <<item>>, idx |-> 0, at |-> ""]]
         IN  execRoute(s1, l, 1)
    ELSE [s EXCEPT !.loops[l].pc = "done"]

\* variant: the queue keeps the snapshot that pop returns
whileLoopPeeks(s, l) ==
    IF ~isEmpty(s.routingQueue)
    THEN LET item == popItem(s.routingQueue)
             s1 == [s EXCEPT !.loops[l] = [pc |-> "exec", item |-> <<item>>, idx |-> 0, at |-> ""]]
         IN  execRoute(s1, l, 1)
    ELSE [s EXCEPT !.routing = FALSE, !.loops[l].pc = "done"]

\* the while statement of lines 197-200, entered at its test
whileLoop(s, l) ==
    IF ~isEmpty(s.routingQueue)
    THEN LET item == popItem(s.routingQueue)
             s1 == [s EXCEPT !.routingQueue = popRest(@),
                             !.loops[l] = [pc |-> "exec", item |-> <<item>>, idx |-> 0, at |-> ""]]
         IN  execRoute(s1, l, 1)
    ELSE [s EXCEPT !.routing = FALSE, !.loops[l].pc = "done"]

\* variant: the iteration leaves out the Detours appended since the activation began
execRouteFrozenAtDrainStart(s, l, i) ==
    LET item == s.loops[l].item[1]
    IN  IF i > Len(s.urlChangeListeners)
        THEN [s EXCEPT !.loops[l].pc = "awaitExec",
                       !.loops[l].idx = i,
                       !.loops[l].at = "",
                       !.log = Append(@, [type |-> "routed", id |-> item.id, idx |-> i - 1,
                                          arg |-> item.loc])]
        ELSE LET listener == s.urlChangeListeners[i]
             IN  IF /\ s.registered[i].loops < l
                    /\ ~has(listener.condition) \/ Test(listener.condition, item.loc)
                 THEN LET s1 == [s EXCEPT
                                   !.loops[l].pc = "awaitHandler",
                                   !.loops[l].idx = i,
                                   !.loops[l].at = s.address,
                                   !.running = @ \cup {<<item.id, i>>},
                                   !.log = Append(@, [type |-> "start", id |-> item.id,
                                                      idx |-> i,
                                                      arg |-> handlerArgument(s, item)])]
                      IN  callHandler(s1, listener.handler)
                 ELSE execRoute(s, l, i + 1)

\* variant: the iteration leaves out the Detours appended since it began
execRouteFrozenAtDispatch(s, l, i) ==
    LET item == s.loops[l].item[1]
    IN  IF i > Len(s.urlChangeListeners)
        THEN [s EXCEPT !.loops[l].pc = "awaitExec",
                       !.loops[l].idx = i,
                       !.loops[l].at = "",
                       !.log = Append(@, [type |-> "routed", id |-> item.id, idx |-> i - 1,
                                          arg |-> item.loc])]
        ELSE LET listener == s.urlChangeListeners[i]
             IN  IF /\ \A p \in 1..s.registered[i].log : s.log[p].id # item.id
                    /\ ~has(listener.condition) \/ Test(listener.condition, item.loc)
                 THEN LET s1 == [s EXCEPT
                                   !.loops[l].pc = "awaitHandler",
                                   !.loops[l].idx = i,
                                   !.loops[l].at = s.address,
                                   !.running = @ \cup {<<item.id, i>>},
                                   !.log = Append(@, [type |-> "start", id |-> item.id,
                                                      idx |-> i,
                                                      arg |-> handlerArgument(s, item)])]
                      IN  callHandler(s1, listener.handler)
                 ELSE execRoute(s, l, i + 1)

\* execRoute: the for-of of lines 205-209 at index i of the live listener array,
\* up to the next await (of a handler, or of execRoute's own promise in line 198)
execRoute(s, l, i) ==
    LET item == s.loops[l].item[1]
    IN  IF i > Len(s.urlChangeListeners)
        THEN [s EXCEPT !.loops[l].pc = "awaitExec",
                       !.loops[l].idx = i,
                       !.loops[l].at = "",
                       !.log = Append(@, [type |-> "routed", id |-> item.id, idx |-> i - 1,
                                          arg |-> item.loc])]
        ELSE LET listener == s.urlChangeListeners[i]
             IN  IF ~has(listener.condition) \/ Test(listener.condition, item.loc)
                 THEN LET s1 == [s EXCEPT
                                   !.loops[l].pc = "awaitHandler",
                                   !.loops[l].idx = i,
                                   !.loops[l].at = s.address,
                                   !.running = @ \cup {<<item.id, i>>},
                                   !.log = Append(@, [type |-> "start", id |-> item.id,
                                                      idx |-> i,
                                                      arg |-> handlerArgument(s, item)])]
                      IN  callHandler(s1, listener.handler)
                 ELSE execRoute(s, l, i + 1)

\* the synchronous part of a listener (the calls it makes into the router stay
\* within the explored bounds)
callHandler(s, h) ==
    IF h = "nav" /\ Len(s.captured) < MaxEnq
    THEN enqueueCurrentRoute(s)
    ELSE IF h = "go" /\ Len(s.captured) < MaxEnq /\ s.pushes < MaxPush
         THEN navigateTo(s, Target)
         ELSE s

\* variant: line 207 without its await
handlerSettledNoAwait(s, l) == TRUE

\* the promise awaited in line 207 by activation l has settled
handlerSettled(s, l) == <<s.loops[l].item[1].id, s.loops[l].idx>> \notin s.running

\* variant: a failure of the handler is caught and the iteration goes on
afterHandlerCatches(s, l) == execRoute(s, l, s.loops[l].idx + 1)

\* variant: the flag is cleared when the async function ends by an exception
afterHandlerFinally(s, l) ==
    IF <<s.loops[l].item[1].id, s.loops[l].idx>> \in s.failed
    THEN [s EXCEPT !.loops[l].pc = "aborted", !.loops[l].at = "", !.routing = FALSE]
    ELSE execRoute(s, l, s.loops[l].idx + 1)

\* continuation of activation l after the await of line 207
afterHandler(s, l) ==
    IF <<s.loops[l].item[1].id, s.loops[l].idx>> \in s.failed
    THEN [s EXCEPT !.loops[l].pc = "aborted", !.loops[l].at = ""]
    ELSE execRoute(s, l, s.loops[l].idx + 1)

\* continuation of activation l after the await of line 198
afterExec(s, l) == whileLoop(s, l)

-----------------------------------------------------------------------------
\* DOM events: the two listeners of the constructor and the dispatch of an event to
\* them.

RECURSIVE dispatchEvent(_, _, _)
RECURSIVE invokeAll(_, _)
RECURSIVE callListener(_, _)

\* new Event(type): neither bubbles nor is cancelable unless asked for
Event(type) ==
    [type |-> type, bubbles |-> FALSE, cancelable |-> FALSE, defaultPrevented |-> FALSE]

\* event.preventDefault(): cancels a cancelable event, has no effect on another
preventDefault(e) == [e EXCEPT !.defaultPrevented = e.cancelable]

\* String.prototype.startsWith
startsWith(str, prefix) ==
    /\ Len(prefix) <= Len(str)
    /\ SubSeq(str, 1, Len(prefix)) = prefix

\* the listeners the constructor adds (lines 144 and 150), both on window and
\* without the capture option
EventListeners ==
    << [target |-> "window", type |-> "unload", capture |-> FALSE, callback |-> "unloadListener"],
       [target |-> "window", type |-> "popstate", capture |-> FALSE, callback |-> "popstateListener"] >>

\* the objects an event dispatched on target passes on its way, outermost first,
\* the target excluded: window is the parent of document
Ancestors(target) == IF target = "document" THEN {"window"} ELSE {}

\* variant: the listener of line 150 without the call of enqueueCurrentRoute
popstateListenerNoEnqueue(r) == [s |-> r.s, e |-> preventDefault(r.e)]

\* the popstate listener (lines 150-153); r holds the program state and the event
popstateListener(r) == [s |-> enqueueCurrentRoute(r.s), e |-> preventDefault(r.e)]

\* variant: the listener of line 144 without the test of line 145
unloadListenerAlways(r) ==
    LET d == dispatchEvent([r.s EXCEPT !.synthesized = @ + 1], "document", Event("popstate"))
    IN  [s |-> d.s, e |-> preventDefault(r.e)]

\* the unload listener (lines 144-149)
unloadListener(r) ==
    IF startsWith(windowLocation(r.s).pathname, r.s.basePath)
    THEN LET d == dispatchEvent([r.s EXCEPT !.synthesized = @ + 1], "document", Event("popstate"))
         IN  [s |-> d.s, e |-> preventDefault(r.e)]
    ELSE r

\* calling a registered listener with the event
callListener(r, callback) ==
    CASE callback = "unloadListener" -> unloadListener(r)
      [] callback = "popstateListener" -> popstateListener(r)

\* the listeners of the sequence are called one after the other
invokeAll(r, listeners) ==
    IF listeners = <<>>
    THEN r
    ELSE invokeAll(callListener(r, Head(listeners).callback), Tail(listeners))

\* target.dispatchEvent(e): the capturing listeners of the ancestors, the listeners
\* of the target, and, for an event that bubbles, the other listeners of the
\* ancestors; yields the program state and the event after the dispatch
dispatchEvent(s, target, e) ==
    LET capturing == SelectSeq(EventListeners, LAMBDA x :
                         x.type = e.type /\ x.target \in Ancestors(target) /\ x.capture)
        atTarget == SelectSeq(EventListeners, LAMBDA x :
                         x.type = e.type /\ x.target = target)
        bubbling == SelectSeq(EventListeners, LAMBDA x :
                         x.type = e.type /\ x.target \in Ancestors(target) /\ ~x.capture
                         /\ e.bubbles)
    IN  invokeAll([s |-> s, e |-> e], capturing \o atTarget \o bubbling)

\* the event a browser, or a script, sends to the window
WindowEvent(type, cancelable) == [Event(type) EXCEPT !.cancelable = cancelable]

-----------------------------------------------------------------------------
\* Initial state: a router was created, the address bar shows InitialUrl.

\* the state after Router.create(b)
Created(b) ==
    /\ address = InitialUrl
    /\ pushes = 0
    /\ urlChangeListeners = <<>>
    /\ routingQueue = <<>>
    /\ routing = FALSE
    /\ loops = <<>>
    /\ running = {}
    /\ failed = {}
    /\ log = <<>>
    /\ captured = <<>>
    /\ basePath = b
    /\ unloaded = <<>>
    /\ synthesized = 0
    /\ registered = <<>>

\* getUrlParams is not called
NoParams == composed = <<>> /\ urlArgument = "" /\ returned = <<>>

\* no predicate is called outside the router
NoPredicate == predicate = NoCondition /\ evaluations = <<>>

\* the state after HtmlComponent.create(): field initialisers of lines 62-109
ComponentCreated ==
    /\ renderedPromise = 1
    /\ promises = <<[resolved |-> FALSE, obtained |-> <<>>]>>
    /\ visibilityChangeListeners = {}
    /\ visibilityState = FALSE
    /\ element = 0
    /\ hideWhenRendered = FALSE
    /\ renderedOnce = FALSE
    /\ elements = <<>>
    /\ renderings = <<>>
    /\ timers = 0
    /\ notifications = {}

\* Router.create(): basePath has its default
Init ==
    /\ Created("/")
    /\ NoParams
    /\ NoPredicate
    /\ ComponentCreated

\* another enqueueCurrentRoute call stays within the explored bounds
CanEnqueue == Len(captured) < MaxEnq /\ size(routingQueue) < ROUTING_QUEUE_LENGTH

\* another history.pushState call stays within the explored bounds
CanPush == pushes < MaxPush

\* the application registers a listener
OnUrlChange(h, c) ==
    /\ Len(urlChangeListeners) < MaxDetours
    /\ Becomes(onUrlChange(St, h, c))

\* the application calls setUrl
SetUrl(u) ==
    /\ CanPush
    /\ Becomes(setUrl(St, u))

\* the application calls navigateTo
NavigateTo(u) ==
    /\ CanPush
    /\ CanEnqueue
    /\ Becomes(navigateTo(St, u))

\* the application calls enqueueCurrentRoute
EnqueueCurrentRoute ==
    /\ CanEnqueue
    /\ Becomes(enqueueCurrentRoute(St))

\* the user goes back or forward to a history entry showing u (the session history
\* may hold entries older than the router); the window receives popstate
\* (lines 150-153)
PopState(u) ==
    /\ CanEnqueue
    /\ \E cancelable \in BOOLEAN :
          Becomes(dispatchEvent([St EXCEPT !.address = u], "window",
                                WindowEvent("popstate", cancelable)).s)

\* the window receives unload (lines 144-149)
Unload(cancelable) ==
    /\ CanEnqueue
    /\ LET r == dispatchEvent([St EXCEPT !.synthesized = 0], "window",
                              WindowEvent("unload", cancelable))
       IN  Becomes([r.s EXCEPT !.unloaded = <<r.e>>])

\* the promise of a running handler is resolved
HandlerResolves(inv) ==
    /\ running' = running \ {inv}
    /\ log' = Append(log, [type |-> "end", id |-> inv[1], idx |-> inv[2]])
    /\ UNCHANGED <<address, pushes, urlChangeListeners, routingQueue, routing, loops, failed, captured>>
    /\ UNCHANGED <<basePath, unloaded, synthesized, registered>>
    /\ UNCHANGED <<paramsVars, predicateVars, componentVars>>

\* a running handler throws, or its promise is rejected
HandlerFails(inv) ==
    /\ running' = running \ {inv}
    /\ failed' = failed \cup {inv}
    /\ log' = Append(log, [type |-> "fail", id |-> inv[1], idx |-> inv[2]])
    /\ UNCHANGED <<address, pushes, urlChangeListeners, routingQueue, routing, loops, captured>>
    /\ UNCHANGED <<basePath, unloaded, synthesized, registered>>
    /\ UNCHANGED <<paramsVars, predicateVars, componentVars>>

\* activation l resumes after the handler it awaits has settled
ResumeAfterHandler(l) ==
    /\ loops[l].pc = "awaitHandler"
    /\ handlerSettled(St, l)
    /\ Becomes(afterHandler(St, l))

\* activation l resumes after execRoute's promise has resolved
ResumeAfterExec(l) ==
    /\ loops[l].pc = "awaitExec"
    /\ Becomes(afterExec(St, l))

Next ==
    \/ \E h \in Handlers, c \in Conditions : OnUrlChange(h, c)
    \/ \E u \in Urls : SetUrl(u)
    \/ \E u \in Urls : NavigateTo(u)
    \/ EnqueueCurrentRoute
    \/ \E u \in Urls : PopState(u)
    \/ \E inv \in running : HandlerResolves(inv)
    \/ \E inv \in running : HandlerFails(inv)
    \/ \E l \in 1..Len(loops) : ResumeAfterHandler(l)
    \/ \E l \in 1..Len(loops) : ResumeAfterExec(l)

Spec == Init /\ [][Next]_vars

\* the application registers a listener, and the moment of the call is recorded
Register(h, c) ==
    /\ Len(urlChangeListeners) < MaxDetours
    /\ Becomes([onUrlChange(St, h, c) EXCEPT
                   !.registered = Append(@, [log |-> Len(log), captured |-> Len(captured),
                                             loops |-> Len(loops)])])

\* the steps of a router whose history of registrations is kept; the address bar
\* changes through navigateTo and popstate, the listeners only start their own work
\* and complete
RegistrationNext ==
    \/ \E c \in Conditions : Register("h", c)
    \/ \E u \in Urls : NavigateTo(u)
    \/ EnqueueCurrentRoute
    \/ \E u \in Urls : PopState(u)
    \/ \E inv \in running : HandlerResolves(inv)
    \/ \E l \in 1..Len(loops) : ResumeAfterHandler(l)
    \/ \E l \in 1..Len(loops) : ResumeAfterExec(l)

RegistrationSpec == Init /\ [][RegistrationNext]_vars

\* the steps of a router whose listeners call back into it, none of them failing
ReentryNext ==
    \/ \E h \in ReentrantHandlers, c \in Conditions : OnUrlChange(h, c)
    \/ \E u \in Urls : SetUrl(u)
    \/ \E u \in Urls : NavigateTo(u)
    \/ EnqueueCurrentRoute
    \/ \E u \in Urls : PopState(u)
    \/ \E inv \in running : HandlerResolves(inv)
    \/ \E l \in 1..Len(loops) : ResumeAfterHandler(l)
    \/ \E l \in 1..Len(loops) : ResumeAfterExec(l)

ReentrySpec == Init /\ [][ReentryNext]_vars

\* Router.create("/b"): a base path that the pathname /b starts with and the
\* pathname /a does not
DomInit ==
    /\ Created("/b")
    /\ NoParams
    /\ NoPredicate
    /\ ComponentCreated

\* the steps of such a router, whose window also receives unload events; the
\* listeners registered only start their own work and complete
DomNext ==
    \/ \E c \in Conditions : OnUrlChange("h", c)
    \/ \E u \in Urls : SetUrl(u)
    \/ \E u \in Urls : NavigateTo(u)
    \/ EnqueueCurrentRoute
    \/ \E u \in Urls : PopState(u)
    \/ \E cancelable \in BOOLEAN : Unload(cancelable)
    \/ \E inv \in running : HandlerResolves(inv)
    \/ \E l \in 1..Len(loops) : ResumeAfterHandler(l)
    \/ \E l \in 1..Len(loops) : ResumeAfterExec(l)

DomSpec == DomInit /\ [][DomNext]_vars

-----------------------------------------------------------------------------
\* The utility getUrlParams (lines 221-232), computed on strings as the code does.

\* number of segments ("key=value" or "key") a query string is written from
MaxSegments == 2

\* keys as written in a query string
Keys == {"a", "b", "a%20b", "__proto__"}

\* values: as written in a query string (percent-encoded, or holding a "=" as it
\* is), and the text they stand for
Values ==
    { [written |-> "1", means |-> "1"],
      [written |-> "2", means |-> "2"],
      [written |-> "%20", means |-> " "],
      [written |-> "x%3Dy", means |-> "x=y"],
      [written |-> "1%262", means |-> "1&2"],
      [written |-> "b=c", means |-> "b=c"] }

\* the segments of a query string: a key with a value, or a key alone
Segments ==
    [key : Keys, hasValue : {TRUE}, value : Values]
        \cup [key : {"a", "b"}, hasValue : {FALSE}, value : {[written |-> "", means |-> ""]}]

\* the segment sequences urls are written from
Queries == UNION {[1..n -> Segments] : n \in 0..MaxSegments}

\* what follows the query in a url
Fragments == {"", "#f"}

RECURSIVE Join(_)
RECURSIVE indexOf(_, _)
RECURSIVE split(_, _)
RECURSIVE decodeURIComponent(_)
RECURSIVE forLoop(_, _, _)

\* a segment as written
Written(seg) == IF seg.hasValue THEN seg.key \o "=" \o seg.value.written ELSE seg.key

\* the segments of q, as written, separated by "&"
Join(q) ==
    IF Len(q) = 0 THEN ""
    ELSE IF Len(q) = 1 THEN Written(q[1])
    ELSE Written(q[1]) \o "&" \o Join(Tail(q))

\* the url with query q and fragment f; without segments it has no "?"
UrlOf(q, f) == "http://x/" \o (IF Len(q) = 0 THEN "" ELSE "?" \o Join(q)) \o f

\* String.prototype.indexOf for a single character, counting from 1; 0 when absent
indexOf(str, ch) ==
    IF str = "" THEN 0
    ELSE IF SubSeq(str, 1, 1) = ch THEN 1
    ELSE LET i == indexOf(SubSeq(str, 2, Len(str)), ch)
         IN  IF i = 0 THEN 0 ELSE i + 1

\* String.prototype.split for a single character separator
split(str, sep) ==
    LET i == indexOf(str, sep)
    IN  IF i = 0 THEN <<str>>
        ELSE <<SubSeq(str, 1, i - 1)>> \o split(SubSeq(str, i + 1, Len(str)), sep)

\* String.prototype.substring(start), start counted from 0
substring(str, start) == SubSeq(str, start + 1, Len(str))

\* the search property of an anchor element whose href is url (lines 223-225): the
\* query with its leading "?", without the fragment; empty for an empty query
search(url) ==
    LET h == indexOf(url, "#")
        u == IF h = 0 THEN url ELSE SubSeq(url, 1, h - 1)
        i == indexOf(u, "?")
    IN  IF i = 0 \/ i = Len(u) THEN "" ELSE SubSeq(u, i, Len(u))

\* the escape sequences decoded, with the characters they stand for
Escapes == [e \in {"%20", "%26", "%3D", "%25"} |->
               CASE e = "%20" -> " " [] e = "%26" -> "&" [] e = "%3D" -> "=" [] e = "%25" -> "%"]

\* decodeURIComponent(str) throws URIError: a "%" that begins no escape sequence
malformed(str) ==
    \E i \in 1..Len(str) :
        /\ SubSeq(str, i, i) = "%"
        /\ i + 2 > Len(str) \/ SubSeq(str, i, i + 2) \notin DOMAIN Escapes

\* decodeURIComponent(str) for a well-formed str
decodeURIComponent(str) ==
    IF str = "" THEN ""
    ELSE IF SubSeq(str, 1, 1) = "%"
         THEN Escapes[SubSeq(str, 1, 3)] \o decodeURIComponent(SubSeq(str, 4, Len(str)))
         ELSE SubSeq(str, 1, 1) \o decodeURIComponent(SubSeq(str, 2, Len(str)))

\* pair[1] as decodeURIComponent receives it: a missing element is undefined, which
\* is converted to the string "undefined"
pairValue(pair) == IF Len(pair) >= 2 THEN pair[2] ELSE "undefined"

\* params[key] = value for a string value on the plain object of line 222: the
\* object gets or overwrites the property key, except for the key __proto__, for
\* which the setter inherited from Object.prototype is called, which ignores a
\* value that is neither an object nor null
assign(params, key, value) ==
    IF key = "__proto__"
    THEN params
    ELSE [k \in DOMAIN params \cup {key} |-> IF k = key THEN value ELSE params[k]]

\* the loop of lines 227-230 from index i (counted from 1) on
forLoop(params, segs, i) ==
    IF i > Len(segs)
    THEN [status |-> "returned", params |-> params]
    ELSE LET pair == split(segs[i], "=")
         IN  IF malformed(pairValue(pair))
             THEN [status |-> "URIError", params |-> <<>>]
             ELSE forLoop(assign(params, pair[1], decodeURIComponent(pairValue(pair))),
                          segs, i + 1)

\* getUrlParams(url): the mapping returned, or the error thrown
getUrlParams(url) ==
    LET query == substring(search(url), 1)
        segs == split(query, "&")
    IN  forLoop(<<>>, segs, 1)

\* the application is about to call getUrlParams on a url
ParamsInit ==
    /\ Created("/")
    /\ \E q \in Queries, f \in Fragments :
          /\ composed = q
          /\ urlArgument = UrlOf(q, f)
    /\ returned = <<>>
    /\ NoPredicate
    /\ ComponentCreated

\* the call of getUrlParams
GetUrlParams ==
    /\ returned = <<>>
    /\ returned' = <<getUrlParams(urlArgument)>>
    /\ UNCHANGED <<routerVars, composed, urlArgument, predicateVars, componentVars>>

ParamsNext == GetUrlParams

ParamsSpec == ParamsInit /\ [][ParamsNext]_vars

-----------------------------------------------------------------------------
\* The predicates path, regex and glob (lines 100-121), called by the application.

\* number of calls of one predicate
MaxEvaluations == 2

\* pathnames of the snapshots a predicate is called on
Pathnames == {"/x", "/x/", "/y", "//", "/.x"}

\* a snapshot with the given pathname, query and fragment (origin http://x)
Snapshot(pathname, query, fragment) ==
    [hash |-> fragment, host |-> "x", hostname |-> "x",
     href |-> "http://x" \o pathname \o query \o fragment,
     origin |-> "http://x", pathname |-> pathname, port |-> "",
     protocol |-> "http:", search |-> query]

Snapshots == {Snapshot(p, q, f) : p \in Pathnames, q \in {"", "?q=1"}, f \in {"", "#/x"}}

\* a RegExp object whose pattern is the literal text source
RegExpObject(source, global, sticky) ==
    [source |-> source, global |-> global, sticky |-> sticky, lastIndex |-> 0]

\* regex(re): re.test on location.pathname
regex(re) == [kind |-> "regex", arg |-> re]

\* glob(pattern): micromatch.isMatch on location.pathname
glob(pattern) == [kind |-> "glob", arg |-> pattern]

\* str holds the text source at position i (counted from 0)
matchAt(str, source, i) ==
    /\ i + Len(source) <= Len(str)
    /\ SubSeq(str, i + 1, i + Len(source)) = source

\* RegExp.prototype.test(str) for a literal pattern: the search starts at lastIndex
\* when the global or sticky flag is set (at 0 otherwise), a sticky pattern matches
\* only there; with one of the flags lastIndex becomes the end of the match, or 0
\* when there is none. Yields the result and the new lastIndex.
test(re, str) ==
    LET flagged == re.global \/ re.sticky
        start == IF flagged THEN re.lastIndex ELSE 0
        found == {i \in start..Len(str) :
                     matchAt(str, re.source, i) /\ (re.sticky => i = start)}
    IN  IF found = {}
        THEN [result |-> FALSE, lastIndex |-> IF flagged THEN 0 ELSE re.lastIndex]
        ELSE LET i == CHOOSE x \in found : \A y \in found : x <= y
             IN  [result |-> TRUE,
                  lastIndex |-> IF flagged THEN i + Len(re.source) ELSE re.lastIndex]

\* micromatch.isMatch(str, pattern) for the patterns used: "/*" matches a slash
\* followed by at least one character, the first of them not a dot and none but
\* the last a slash (so /x, /x/ and // match, / and /.x do not); a pattern without
\* special characters matches itself only
isMatch(str, pattern) ==
    IF pattern = "/*"
    THEN /\ Len(str) >= 2
         /\ SubSeq(str, 1, 1) = "/"
         /\ SubSeq(str, 2, 2) # "."
         /\ \A i \in 2..(Len(str) - 1) : SubSeq(str, i, i) # "/"
    ELSE str = pattern

\* calling a predicate: its result, and the predicate as it is afterwards
evaluate(condition, location) ==
    CASE condition.kind = "path" ->
            [result |-> Test(condition, location), predicate |-> condition]
      [] condition.kind = "glob" ->
            [result |-> isMatch(location.pathname, condition.arg), predicate |-> condition]
      [] condition.kind = "regex" ->
            LET t == test(condition.arg, location.pathname)
            IN  [result |-> t.result,
                 predicate |-> [condition EXCEPT !.arg.lastIndex = t.lastIndex]]

\* the predicates the application builds
Predicates ==
    {path(p) : p \in {"/x", "/x/"}}
        \cup {glob(g) : g \in {"/x", "/*"}}
        \cup {regex(RegExpObject(source, global, sticky)) :
                 source \in {"/x", "x"}, global \in BOOLEAN, sticky \in BOOLEAN}

\* the application has built a predicate
PredicateInit ==
    /\ Created("/")
    /\ NoParams
    /\ predicate \in Predicates
    /\ evaluations = <<>>
    /\ ComponentCreated

\* the application calls the predicate on a snapshot
Evaluate(location) ==
    /\ Len(evaluations) < MaxEvaluations
    /\ LET r == evaluate(predicate, location)
       IN  /\ evaluations' = Append(evaluations, [location |-> location, result |-> r.result])
           /\ predicate' = r.predicate
    /\ UNCHANGED <<routerVars, paramsVars, componentVars>>

PredicateNext == \E location \in Snapshots : Evaluate(location)

PredicateSpec == PredicateInit /\ [][PredicateNext]_vars

-----------------------------------------------------------------------------
\* HtmlComponent (HtmlComponent.ts): a component without a parent, its methods as
\* functions of the component state.

\* number of renderTo calls explored
MaxRenderTo == 2
\* number of destroy calls explored
MaxDestroy == 1

\* the container argument of renderTo: undefined, a selector that points at no
\* element, or one that is found
Containers == {"undefined", "missed", "found"}

\* listeners given to onVisibilityChange
VisibilityListeners == {"listener"}

\* the component and what it made, as one value
Co ==
    [renderedPromise |-> renderedPromise,
     visibilityChangeListeners |-> visibilityChangeListeners,
     visibilityState |-> visibilityState, element |-> element,
     hideWhenRendered |-> hideWhenRendered, renderedOnce |-> renderedOnce,
     promises |-> promises, elements |-> elements, renderings |-> renderings,
     timers |-> timers, notifications |-> notifications]

\* the component as an operation finds it: no listener called yet
Op == [Co EXCEPT !.notifications = {}]

\* the component is c in the next state; nothing else changes
CoBecomes(c) ==
    /\ renderedPromise' = c.renderedPromise
    /\ visibilityChangeListeners' = c.visibilityChangeListeners
    /\ visibilityState' = c.visibilityState
    /\ element' = c.element
    /\ hideWhenRendered' = c.hideWhenRendered
    /\ renderedOnce' = c.renderedOnce
    /\ promises' = c.promises
    /\ elements' = c.elements
    /\ renderings' = c.renderings
    /\ timers' = c.timers
    /\ notifications' = c.notifications
    /\ UNCHANGED <<routerVars, paramsVars, predicateVars>>

\* isRendered(): has(this.element)
isRendered(c) == c.element # 0

\* isVisible() of a component without a parent
isVisible(c) == c.visibilityState

\* number of renderTo calls that have rendered the component (passed line 183)
Rendered(c) ==
    Cardinality({r \in DOMAIN c.renderings :
                    c.renderings[r].pc \in {"afterEveryRenderSync", "returned"}})

\* fireVisibilityChange(visible) (lines 449-452); was is visibilityState as it was
\* when the operation that fires began
fireVisibilityChange(c, visible, was) ==
    [c EXCEPT !.notifications =
                  @ \cup {[listener |-> l, visible |-> visible, was |-> was] :
                             l \in c.visibilityChangeListeners},
              !.visibilityState = visible]

\* show() (lines 371-377)
show(c, was) ==
    IF isRendered(c)
    THEN LET c1 == [c EXCEPT !.visibilityState = TRUE]
         IN  fireVisibilityChange(c1, isVisible(c1), was)
    ELSE c

\* hide() (lines 382-390)
hide(c, was) ==
    IF isRendered(c)
    THEN LET c1 == [c EXCEPT !.visibilityState = FALSE]
         IN  fireVisibilityChange(c1, isVisible(c1), was)
    ELSE [c EXCEPT !.hideWhenRendered = TRUE]

\* onVisibilityChange(listener) (lines 344-350)
onVisibilityChange(c, listener) ==
    [c EXCEPT !.visibilityChangeListeners = @ \cup {listener}]

\* removeVisibilityChangeListener(listener) (lines 355-362)
removeVisibilityChangeListener(c, listener) ==
    [c EXCEPT !.visibilityChangeListeners = @ \ {listener}]

\* rendered() (lines 322-324); records when the promise is first handed out
rendered(c) ==
    IF c.promises[c.renderedPromise].obtained = <<>>
    THEN [c EXCEPT !.promises[c.renderedPromise].obtained = <<Rendered(c)>>]
    ELSE c

\* lines 168-184 of renderTo for the call r: the element is created and put into
\* the container, listeners are told, the current promise is resolved
renderNow(c, r) ==
    LET was == c.visibilityState
        id == Len(c.elements) + 1
        c1 == [c EXCEPT !.elements = Append(@, FALSE), !.element = id]
    IN  IF c.renderings[r].container = "missed"
        THEN [c1 EXCEPT !.renderings[r].pc = "SelectorMissedError"]
        ELSE LET c2 == [c1 EXCEPT !.elements[id] = TRUE]
                 c3 == IF isVisible(c2) THEN fireVisibilityChange(c2, isVisible(c2), was)
                       ELSE c2
                 c4 == IF c3.hideWhenRendered THEN hide(c3, was)
                       ELSE [c3 EXCEPT !.visibilityState = TRUE]
             IN  [c4 EXCEPT !.promises[c4.renderedPromise].resolved = TRUE,
                            !.renderings[r].pc = "afterEveryRenderSync"]

\* variant: renderTo without the assignment of line 163
renderToKeepsFlag(c, container) ==
    LET call(pc) == [c EXCEPT !.renderings =
                                  Append(@, [pc |-> pc, container |-> container,
                                             first |-> pc = "beforeFirstRender"])]
    IN  IF container = "undefined" THEN call("UndefinedContainerElementError")
        ELSE IF isRendered(c) THEN call("AlreadyRenderedError")
        ELSE IF ~c.renderedOnce
             THEN call("beforeFirstRender")
             ELSE call("beforeEveryRender")

\* renderTo(container) from its call to its first await (lines 149-166)
renderTo(c, container) ==
    LET call(pc) == [c EXCEPT !.renderings =
                                  Append(@, [pc |-> pc, container |-> container,
                                             first |-> pc = "beforeFirstRender"])]
    IN  IF container = "undefined" THEN call("UndefinedContainerElementError")
        ELSE IF isRendered(c) THEN call("AlreadyRenderedError")
        ELSE IF ~c.renderedOnce
             THEN [call("beforeFirstRender") EXCEPT !.renderedOnce = TRUE]
             ELSE call("beforeEveryRender")

\* the call r of renderTo continues after the await it stands at
resumeRenderTo(c, r) ==
    CASE c.renderings[r].pc = "beforeFirstRender" ->
            [c EXCEPT !.renderings[r].pc = "beforeEveryRender"]
      [] c.renderings[r].pc = "beforeEveryRender" -> renderNow(c, r)
      [] c.renderings[r].pc = "afterEveryRenderSync" ->
            [c EXCEPT !.renderings[r].pc = "returned"]

\* doDestroy of destroy (lines 257-263)
doDestroy(c) ==
    LET was == c.visibilityState
        c1 == IF c.element # 0 THEN [c EXCEPT !.elements[c.element] = FALSE] ELSE c
    IN  fireVisibilityChange([c1 EXCEPT !.element = 0], FALSE, was)

\* destroy(fadeOut) (lines 252-277): a new promise replaces renderedPromise, then
\* doDestroy runs, at once or from a timeout
destroy(c, fadeOut) ==
    LET c1 == [c EXCEPT !.promises = Append(@, [resolved |-> FALSE, obtained |-> <<>>]),
                        !.renderedPromise = Len(c.promises) + 1]
    IN  IF fadeOut THEN [c1 EXCEPT !.timers = @ + 1] ELSE doDestroy(c1)

\* the application calls onVisibilityChange
OnVisibilityChange(listener) == CoBecomes(onVisibilityChange(Op, listener))

\* the application calls removeVisibilityChangeListener
RemoveVisibilityChangeListener(listener) ==
    CoBecomes(removeVisibilityChangeListener(Op, listener))

\* the application calls rendered()
RenderedCall == CoBecomes(rendered(Op))

\* the application calls show()
Show == CoBecomes(show(Op, visibilityState))

\* the application calls hide()
Hide == CoBecomes(hide(Op, visibilityState))

\* the application calls renderTo
RenderTo(container) ==
    /\ Len(renderings) < MaxRenderTo
    /\ CoBecomes(renderTo(Op, container))

\* a renderTo call continues after an await
ResumeRenderTo(r) ==
    /\ renderings[r].pc \in {"beforeFirstRender", "beforeEveryRender", "afterEveryRenderSync"}
    /\ CoBecomes(resumeRenderTo(Op, r))

\* the application calls destroy
Destroy(fadeOut) ==
    /\ Len(promises) <= MaxDestroy
    /\ CoBecomes(destroy(Op, fadeOut))

\* the timeout of a destroy(true) expires (lines 269-272)
DestroyTimeout ==
    /\ timers > 0
    /\ CoBecomes(doDestroy([Op EXCEPT !.timers = @ - 1]))

\* a component was created
ComponentInit ==
    /\ Created("/")
    /\ NoParams
    /\ NoPredicate
    /\ ComponentCreated

ComponentNext ==
    \/ \E listener \in VisibilityListeners : OnVisibilityChange(listener)
    \/ \E listener \in VisibilityListeners : RemoveVisibilityChangeListener(listener)
    \/ RenderedCall
    \/ Show
    \/ Hide
    \/ \E container \in Containers : RenderTo(container)
    \/ \E r \in 1..Len(renderings) : ResumeRenderTo(r)
    \/ \E fadeOut \in BOOLEAN : Destroy(fadeOut)
    \/ DestroyTimeout

ComponentSpec == ComponentInit /\ [][ComponentNext]_vars

-----------------------------------------------------------------------------
\* Vocabulary of the properties.

\* activations of the consumer function that have neither returned nor thrown
ActiveLoops == {l \in 1..Len(loops) : loops[l].pc \in {"start", "exec", "awaitHandler", "awaitExec"}}

\* positions of the log holding an event of type t for snapshot id
EventsOf(t, id) == {p \in DOMAIN log : log[p].type = t /\ log[p].id = id}

\* execRoute has run to its end for snapshot id
Routed(id) == EventsOf("routed", id) # {}

\* snapshot id waits in the queue
Pending(id) == \E i \in 1..Len(routingQueue) : routingQueue[i].id = id

\* nothing of the router is left to run: no handler is pending, no activation can resume
Quiescent == running = {} /\ ActiveLoops = {}

\* the nine fields of a snapshot
SnapshotFields == {"hash", "host", "hostname", "href", "origin", "pathname", "port", "protocol", "search"}

\* a Detour fires on a snapshot
Fires(detour, location) == ~has(detour.condition) \/ Test(detour.condition, location)

-----------------------------------------------------------------------------
\* Below the queue's capacity, handlers are called in the order in which their
\* snapshots were enqueued. (What the queue does with a push at capacity is decided
\* by BufferQueue, whose code is not part of this source.)
FifoBelowCapacity ==
    \A p, q \in DOMAIN log :
        (p < q /\ log[p].type = "start" /\ log[q].type = "start") => log[p].id <= log[q].id

\* C2: in every reachable state at most one activation of the consumer loop is
\* active, whatever the interleaving of navigateTo, popstate, enqueueCurrentRoute
\* calls made inside a handler, and handler completions.
C2_SingleFlight == Cardinality(ActiveLoops) <= 1

\* a second snapshot was enqueued (here: pushed only) while the one loop is suspended
\* on a handler
C2_Witness ==
    /\ Cardinality(ActiveLoops) = 1
    /\ \E l \in ActiveLoops : loops[l].pc = "awaitHandler"
    /\ Len(captured) = 2
    /\ Len(routingQueue) = 1

\* C3 (as the specification mandates): a failing handler does not wedge the router.
\* Once a handler has failed and nothing is left to run, the flag is false again,
\* the queue is empty and every enqueued snapshot was dispatched to the end of the
\* Detour list.
C3_FailureIsolated ==
    (failed # {} /\ Quiescent) =>
        /\ ~routing
        /\ isEmpty(routingQueue)
        /\ \A id \in 1..Len(captured) : Routed(id)

\* C4: for one snapshot, handlers are called in registration order, and a handler is
\* called only after the promise of every handler called before it for that
\* snapshot has resolved.
C4_SequentialDispatch ==
    \A p \in DOMAIN log : log[p].type = "start" =>
        \A q \in 1..(p - 1) : (log[q].type = "start" /\ log[q].id = log[p].id) =>
            /\ log[q].idx < log[p].idx
            /\ \E r \in (q + 1)..(p - 1) :
                  log[r].type = "end" /\ log[r].id = log[q].id /\ log[r].idx = log[q].idx

\* two Detours were called for the same snapshot
C4_Witness ==
    \E p, q \in DOMAIN log :
        /\ log[p].type = "start" /\ log[q].type = "start"
        /\ log[p].id = log[q].id /\ log[q].idx < log[p].idx

\* C5: when a handler is called for a snapshot, the dispatch of every snapshot
\* enqueued before it is over: execRoute ran to the end of the Detour list for it,
\* every Detour of that list firing on it was called, every such call has resolved,
\* and nothing happens for it afterwards.
C5_NoInterleaving ==
    /\ \A p \in DOMAIN log : log[p].type = "start" =>
          \A k \in 1..(log[p].id - 1) :
              \E q \in 1..(p - 1) : log[q].type = "routed" /\ log[q].id = k
    /\ \A q \in DOMAIN log : log[q].type = "routed" =>
          /\ \A i \in 1..log[q].idx :
                Fires(urlChangeListeners[i], log[q].arg) =>
                    \E a \in 1..(q - 1) :
                        /\ log[a].type = "start" /\ log[a].id = log[q].id /\ log[a].idx = i
                        /\ \E b \in (a + 1)..(q - 1) :
                              log[b].type = "end" /\ log[b].id = log[q].id /\ log[b].idx = i
          /\ \A r \in (q + 1)..Len(log) : log[r].id # log[q].id

\* handlers ran for two snapshots, the second enqueued while a handler of the first
\* was still running
C5_Witness ==
    \E p, q \in DOMAIN log :
        /\ p < q
        /\ log[p].type = "start" /\ log[p].id = 1
        /\ log[q].type = "start" /\ log[q].id = 2
        /\ Len(loops) = 1

\* C6: the snapshot a handler receives is window.location as it was when
\* enqueueCurrentRoute was called for it, field by field.
C6_SnapshotAtEnqueue ==
    \A p \in DOMAIN log : log[p].type = "start" =>
        /\ DOMAIN log[p].arg = SnapshotFields
        /\ \A f \in SnapshotFields : log[p].arg[f] = captured[log[p].id][f]

\* a handler was called after the address bar had moved on from the enqueued location
C6_Witness ==
    \E l \in 1..Len(loops) :
        /\ loops[l].pc = "awaitHandler"
        /\ loops[l].at # ""
        /\ Location(loops[l].at).href # loops[l].item[1].loc.href
        /\ \E p \in DOMAIN log :
              /\ log[p].type = "start" /\ log[p].id = loops[l].item[1].id
              /\ log[p].idx = loops[l].idx
              /\ log[p].arg = loops[l].item[1].loc

\* the steps in which no handler fails
NextNoFailure ==
    \/ \E h \in Handlers, c \in Conditions : OnUrlChange(h, c)
    \/ \E u \in Urls : SetUrl(u)
    \/ \E u \in Urls : NavigateTo(u)
    \/ EnqueueCurrentRoute
    \/ \E u \in Urls : PopState(u)
    \/ \E inv \in running : HandlerResolves(inv)
    \/ \E l \in 1..Len(loops) : ResumeAfterHandler(l)
    \/ \E l \in 1..Len(loops) : ResumeAfterExec(l)

\* The behaviours of the liveness property: no handler fails and every handler
\* that was called completes (the property's premise), and the JavaScript job
\* queue runs every continuation that is ready.
FairSpec ==
    /\ Init
    /\ [][NextNoFailure]_vars
    /\ WF_vars(\E inv \in running : HandlerResolves(inv))
    /\ WF_vars(\E l \in 1..Len(loops) : ResumeAfterHandler(l))
    /\ WF_vars(\E l \in 1..Len(loops) : ResumeAfterExec(l))

\* the router is idle: flag false, nothing queued
Idle == ~routing /\ isEmpty(routingQueue)

\* C7: when no handler fails and every handler completes, a router that is draining
\* or holds a snapshot in its queue (one pushed while the queue held items or a
\* loop was draining) eventually becomes idle, and whenever it is idle every
\* snapshot enqueued so far has been dispatched to the end of the Detour list: so
\* every waiting snapshot is eventually dispatched.
C7_PendingIsDispatched ==
    /\ (routing \/ ~isEmpty(routingQueue)) ~> Idle
    /\ [](Idle => \A id \in 1..Len(captured) : Routed(id))

\* the second snapshot was pushed while the only loop there ever was was draining,
\* that loop dispatched it and returned, no handler having failed
C7_Witness ==
    /\ failed = {}
    /\ Len(loops) = 1 /\ loops[1].pc = "done"
    /\ Idle
    /\ Routed(1) /\ Routed(2)
    /\ EventsOf("start", 2) # {}

\* C8: the flag goes from false to true only in an enqueueCurrentRoute that starts
\* a consumer loop, and from true to false only when a loop resumes, finds the
\* queue empty and returns; a loop that starts sets it and a loop that returns
\* clears it; an enqueueCurrentRoute made while the flag is false starts a new
\* loop, which takes the new snapshot out of the queue and dispatches it.
C8_FlagTransitions ==
    [][ /\ (~routing /\ routing') =>
              Len(captured') > Len(captured) /\ Len(loops') = Len(loops) + 1
        /\ (routing /\ ~routing') =>
              /\ isEmpty(routingQueue) /\ isEmpty(routingQueue')
              /\ \E l \in 1..Len(loops) : loops[l].pc = "awaitExec" /\ loops'[l].pc = "done"
        /\ Len(loops') > Len(loops) => ~routing /\ routing'
        /\ (\E l \in 1..Len(loops) : loops[l].pc # "done" /\ loops'[l].pc = "done") =>
              routing /\ ~routing'
        /\ (~routing /\ Len(captured') > Len(captured)) =>
              /\ routing'
              /\ Len(loops') = Len(loops) + 1
              /\ loops'[Len(loops')].pc \in {"awaitHandler", "awaitExec"}
              /\ loops'[Len(loops')].item[1].id = Len(captured) + 1
              /\ \A i \in 1..Len(routingQueue') : routingQueue'[i].id # Len(captured) + 1
      ]_vars

\* a drain has completed and a later enqueueCurrentRoute has started a second loop
C8_Witness ==
    /\ Len(loops) = 2
    /\ loops[1].pc = "done"
    /\ loops[2].pc \in {"awaitHandler", "awaitExec"}
    /\ loops[2].item[1].id = 2
    /\ routing

\* exactly one history entry was pushed, for u
HistoryPushed(u) ==
    /\ pushes' = pushes + 1
    /\ address' = u

\* C9: a setUrl(u) call pushes exactly one history entry for u and changes nothing
\* of the router: queue, flag, Detours, loops, handlers called.
C9_SetUrlOnlyPushesHistory ==
    [][ \A u \in Urls : SetUrl(u) =>
            /\ HistoryPushed(u)
            /\ UNCHANGED <<routingQueue, routing, urlChangeListeners, loops, running,
                           failed, log, captured>>
      ]_vars

\* setUrl acted while a dispatch was in progress: the address bar left the location
\* of the one snapshot ever enqueued, with no further enqueue
C9_Witness ==
    /\ address = "/b?q=1"
    /\ pushes = 1
    /\ Len(captured) = 1
    /\ captured[1] = Location("/a")
    /\ routing
    /\ running # {}

\* item is the snapshot number n, describing url u
Describes(item, n, u) ==
    /\ item.id = n
    /\ DOMAIN item.loc = SnapshotFields
    /\ \A f \in SnapshotFields : item.loc[f] = Location(u)[f]

\* C10: a navigateTo(u) call pushes one history entry for u and makes one
\* enqueueCurrentRoute call on the new location: the snapshot describes u and is
\* either appended to the queue or, if the router was idle, taken by a new loop; the
\* resulting state, handler calls included, is the one setUrl(u) followed by
\* enqueueCurrentRoute() yields.
C10_NavigateToIsSetUrlThenEnqueue ==
    [][ \A u \in Urls : NavigateTo(u) =>
            LET n == Len(captured) + 1
            IN  /\ HistoryPushed(u)
                /\ Len(captured') >= n
                /\ captured'[n] = Location(u)
                /\ \/ /\ Len(captured') = n
                      /\ Len(routingQueue') = Len(routingQueue) + 1
                      /\ SubSeq(routingQueue', 1, Len(routingQueue)) = routingQueue
                      /\ Describes(routingQueue'[Len(routingQueue')], n, u)
                      /\ UNCHANGED <<routing, loops, running, failed, log>>
                   \/ /\ ~routing /\ routing'
                      /\ Len(loops') = Len(loops) + 1
                      /\ Describes(loops'[Len(loops')].item[1], n, u)
                /\ UNCHANGED urlChangeListeners
                /\ St' = enqueueCurrentRoute(setUrl(St, u))
      ]_vars

\* navigateTo("/b?q=1") acted on an idle router: the handler was called with the
\* snapshot of the new url
C10_Witness ==
    /\ address = "/b?q=1"
    /\ pushes = 1
    /\ Len(captured) >= 1
    /\ captured[1] = Location("/b?q=1")
    /\ \E p \in DOMAIN log : log[p].type = "start" /\ log[p].id = 1 /\ log[p].arg.pathname = "/b"

\* what the contract asks of a Detour on a snapshot: no condition, or a condition
\* that is true of the snapshot (path(p): the pathname is p)
ShouldFire(detour, location) ==
    \/ detour.condition.kind = "undefined"
    \/ detour.condition.kind = "path" /\ detour.condition.arg = location.pathname

\* the Detour index behind which activation l continues in this step: the one whose
\* handler it awaited, or 0 when it begins a snapshot
ContinuesBehind(l) ==
    IF l <= Len(loops) /\ loops[l].pc = "awaitHandler" THEN loops[l].idx ELSE 0

\* C11: in the dispatch of a snapshot a handler is called if and only if its Detour
\* has no condition or a condition true of that snapshot, and a Detour whose
\* condition is false neither delays nor cancels the ones behind it: the run that
\* continues a dispatch skips every such Detour and calls the first Detour that
\* fires, or ends the dispatch when none is left.
C11_FiresIffConditionHolds ==
    /\ [](\A p \in DOMAIN log :
            /\ log[p].type = "start" => ShouldFire(urlChangeListeners[log[p].idx], log[p].arg)
            /\ log[p].type = "routed" =>
                  \A i \in 1..log[p].idx :
                      ShouldFire(urlChangeListeners[i], log[p].arg) <=>
                          \E a \in 1..(p - 1) :
                              log[a].type = "start" /\ log[a].id = log[p].id /\ log[a].idx = i)
    /\ [][ \A l \in 1..Len(loops') :
              ( /\ l > Len(loops) \/ loops'[l] # loops[l]
                /\ loops'[l].pc \in {"awaitHandler", "awaitExec"} ) =>
                  LET item == loops'[l].item[1]
                      j == loops'[l].idx
                  IN  /\ \A i \in (ContinuesBehind(l) + 1)..(j - 1) :
                            ~ShouldFire(urlChangeListeners[i], item.loc)
                      /\ loops'[l].pc = "awaitHandler" =>
                            /\ j <= Len(urlChangeListeners)
                            /\ ShouldFire(urlChangeListeners[j], item.loc)
                            /\ \E p \in (Len(log) + 1)..Len(log') :
                                  log'[p] = [type |-> "start", id |-> item.id, idx |-> j,
                                             arg |-> item.loc]
                      /\ loops'[l].pc = "awaitExec" => j = Len(urlChangeListeners) + 1
         ]_vars

\* a snapshot of /b was dispatched to the end past a first Detour whose condition
\* path("/a") is false of it: that handler was not called, the second Detour's was
C11_Witness ==
    /\ Len(urlChangeListeners) = 2
    /\ urlChangeListeners[1].condition = path("/a")
    /\ urlChangeListeners[2].condition = NoCondition
    /\ \E q \in DOMAIN log :
          /\ log[q].type = "routed" /\ log[q].idx = 2 /\ log[q].arg.pathname = "/b"
          /\ \E a \in 1..(q - 1) :
                log[a].type = "start" /\ log[a].id = log[q].id /\ log[a].idx = 2
          /\ \A a \in 1..(q - 1) :
                ~(log[a].type = "start" /\ log[a].id = log[q].id /\ log[a].idx = 1)

\* C12: the Detour list only grows at its end. Every step keeps the Detours there
\* are at their positions; only onUrlChange changes the list; an onUrlChange call
\* appends exactly its Detour and leaves the rest of the router as it was. This
\* covers setUrl, navigateTo, enqueueCurrentRoute, dispatch, popstate and unload.
C12_DetoursAppendOnly ==
    [][ /\ Len(urlChangeListeners') >= Len(urlChangeListeners)
        /\ SubSeq(urlChangeListeners', 1, Len(urlChangeListeners)) = urlChangeListeners
        /\ urlChangeListeners' # urlChangeListeners =>
              \E h \in Handlers, c \in Conditions : OnUrlChange(h, c)
        /\ \A h \in Handlers, c \in Conditions : OnUrlChange(h, c) =>
              St' = [St EXCEPT !.urlChangeListeners =
                                   Append(@, [handler |-> h, condition |-> c])]
      ]_vars

\* two different Detours are registered, in that order, and the router has since
\* dispatched a snapshot and its window has received popstate and unload
C12_Witness ==
    /\ urlChangeListeners = << [handler |-> "h", condition |-> path("/a")],
                               [handler |-> "h", condition |-> NoCondition] >>
    /\ unloaded # <<>>
    /\ pushes = 0 /\ address = "/b?q=1"
    /\ \E q \in DOMAIN log : log[q].type = "routed" /\ log[q].idx = 2

\* C13: a popstate event received by the window is cancelled by the listener (as far
\* as the event can be) and makes exactly one enqueueCurrentRoute call: one
\* snapshot of the location the address bar shows then is recorded, and it is either
\* appended to the queue or, on an idle router, taken by a new consumer loop.
C13_PopStateEnqueuesOnce ==
    [][ \A u \in Urls : PopState(u) =>
            LET n == Len(captured) + 1
            IN  /\ \A cancelable \in BOOLEAN :
                      dispatchEvent([St EXCEPT !.address = u], "window",
                                    WindowEvent("popstate", cancelable)).e.defaultPrevented
                          = cancelable
                /\ address' = u
                /\ captured' = Append(captured, Location(u))
                /\ \/ /\ routing \/ ~isEmpty(routingQueue)
                      /\ Len(routingQueue') = Len(routingQueue) + 1
                      /\ SubSeq(routingQueue', 1, Len(routingQueue)) = routingQueue
                      /\ Describes(routingQueue'[Len(routingQueue')], n, u)
                      /\ UNCHANGED <<routing, loops, running, failed, log>>
                   \/ /\ ~routing /\ isEmpty(routingQueue)
                      /\ routing' /\ isEmpty(routingQueue')
                      /\ Len(loops') = Len(loops) + 1
                      /\ Describes(loops'[Len(loops')].item[1], n, u)
                /\ St' = enqueueCurrentRoute([St EXCEPT !.address = u])
                /\ UNCHANGED <<pushes, urlChangeListeners, basePath, unloaded, synthesized>>
      ]_vars

\* the window received popstate for /b?q=1 while the router was dispatching: the
\* snapshot of /b?q=1 waits in the queue
C13_Witness ==
    /\ pushes = 0
    /\ Len(captured) = 2
    /\ captured[2] = Location("/b?q=1")
    /\ routing
    /\ Len(routingQueue) = 1
    /\ routingQueue[1].loc.pathname = "/b"

\* C14 (as the specification asks): an unload event received while the pathname
\* starts with the base path is cancelled (as far as the event can be), one popstate
\* event is synthesized, and that event reaches the popstate listener, which makes
\* exactly one enqueueCurrentRoute call.
C14_UnloadIsRerouted ==
    [][ \A cancelable \in BOOLEAN :
            (Unload(cancelable) /\ startsWith(Location(address).pathname, basePath)) =>
                /\ unloaded'[1].defaultPrevented = cancelable
                /\ synthesized' = 1
                /\ captured' = Append(captured, Location(address))
      ]_vars

\* every operation other than the delivery of an unload event yields, on a router
\* created with another base path and otherwise in the same state, the same outcome
BasePathIsNotRead ==
    \A b \in BasePaths \ {basePath} :
        LET T == [St EXCEPT !.basePath = b]
            Same(x, y) == x = [y EXCEPT !.basePath = b]
        IN  /\ \A h \in Handlers, c \in Conditions :
                  Same(onUrlChange(T, h, c), onUrlChange(St, h, c))
            /\ \A u \in Urls : Same(setUrl(T, u), setUrl(St, u))
            /\ CanEnqueue =>
                  /\ \A u \in Urls : Same(navigateTo(T, u), navigateTo(St, u))
                  /\ Same(enqueueCurrentRoute(T), enqueueCurrentRoute(St))
                  /\ \A u \in Urls :
                        Same(dispatchEvent([T EXCEPT !.address = u], "window",
                                           WindowEvent("popstate", FALSE)).s,
                             dispatchEvent([St EXCEPT !.address = u], "window",
                                           WindowEvent("popstate", FALSE)).s)
            /\ \A l \in 1..Len(loops) :
                  /\ (loops[l].pc = "awaitHandler" /\ handlerSettled(St, l)) =>
                        Same(afterHandler(T, l), afterHandler(St, l))
                  /\ loops[l].pc = "awaitExec" =>
                        Same(afterExec(T, l), afterExec(St, l))

\* C15: an unload event received while the pathname does not start with the base
\* path is left as it was (not cancelled), no popstate event is synthesized and
\* nothing of the router changes; the base path never changes and no other
\* operation of the router depends on it.
C15_UnloadOutsideBasePath ==
    /\ []BasePathIsNotRead
    /\ [][ /\ \A cancelable \in BOOLEAN :
                 (Unload(cancelable) /\ ~startsWith(Location(address).pathname, basePath)) =>
                     /\ unloaded' = <<WindowEvent("unload", cancelable)>>
                     /\ synthesized' = 0
                     /\ UNCHANGED <<address, pushes, urlChangeListeners, routingQueue,
                                    routing, loops, running, failed, log, captured>>
           /\ basePath' = basePath
         ]_vars

\* a router with base path /b whose window received a cancelable unload event while
\* the address bar showed /a: the event was not cancelled
C15_Witness ==
    /\ basePath = "/b"
    /\ address = "/a" /\ pushes = 0 /\ captured = <<>>
    /\ unloaded # <<>>
    /\ unloaded[1].cancelable
    /\ ~unloaded[1].defaultPrevented
    /\ synthesized = 0

\* the last segment of q written with key k (0 when there is none)
LastOccurrence(q, k) ==
    IF \E i \in 1..Len(q) : q[i].key = k
    THEN CHOOSE i \in 1..Len(q) : q[i].key = k /\ \A j \in (i + 1)..Len(q) : q[j].key # k
    ELSE 0

\* C16 (as the specification states): the mapping getUrlParams returns has, for
\* every key written with a value in the query string, an entry under the key
\* exactly as written (not decoded) whose value is the decoded text of the value
\* of the last segment with that key: earlier values of a repeated key are
\* overwritten, not accumulated. (Keys written without a value are left out here.)
C16_LastValueDecoded ==
    (returned # <<>> /\ returned[1].status = "returned") =>
        \A i \in 1..Len(composed) :
            LET k == composed[i].key
                last == composed[LastOccurrence(composed, k)]
            IN  last.hasValue =>
                    /\ k \in DOMAIN returned[1].params
                    /\ returned[1].params[k] = last.value.means

\* C17: path(p) is true of a snapshot exactly when the snapshot's pathname is the
\* string p, whatever the other fields hold; /x and /x/ are different pathnames.
C17_PathIsExact ==
    predicate.kind = "path" =>
        \A i \in DOMAIN evaluations :
            evaluations[i].result = (evaluations[i].location.pathname = predicate.arg)

\* path("/x") was called on a snapshot of /x/ and on a snapshot of /x with a query
\* and a fragment: false, then true
C17_Witness ==
    /\ predicate = path("/x")
    /\ Len(evaluations) = 2
    /\ evaluations[1].location.pathname = "/x/"
    /\ ~evaluations[1].result
    /\ evaluations[2].location = Snapshot("/x", "?q=1", "#/x")
    /\ evaluations[2].result

\* The predicates of path and glob, and of regex with a RegExp that has neither the
\* global nor the sticky flag, give the same result on the same pathname.
PureWithoutFlags ==
    (predicate.kind = "regex" => ~predicate.arg.global /\ ~predicate.arg.sticky) =>
        \A i, j \in DOMAIN evaluations :
            evaluations[i].location.pathname = evaluations[j].location.pathname =>
                evaluations[i].result = evaluations[j].result

\* C18 (as the specification states): a predicate built by path, regex or glob gives
\* the same result on two snapshots with the same pathname, whatever was evaluated
\* before.
C18_PredicatesArePure ==
    \A i, j \in DOMAIN evaluations :
        evaluations[i].location.pathname = evaluations[j].location.pathname =>
            evaluations[i].result = evaluations[j].result

\* C19 (as the code's documentation states): a visibility-change listener is called
\* only with a value that differs from the visibility state the component
\* remembered when the operation began.
C19_NotifiedOnlyOnChange ==
    \A n \in notifications : n.visible # n.was

\* C20 (as the code's documentation states): a promise that rendered() has returned
\* is resolved once a renderTo call has rendered the component after that, whatever
\* rendered(), destroy() and renderTo() calls were made in between.
C20_RenderedResolvesAtNextRender ==
    \A p \in DOMAIN promises :
        (promises[p].obtained # <<>> /\ Rendered(Co) > promises[p].obtained[1]) =>
            promises[p].resolved

\* the div elements of the component that are in the document
Attached == {e \in DOMAIN elements : elements[e]}

\* C21 (as the contract states): as long as destroy() was not called, at most one
\* renderTo call has rendered the component and at most one element made by the
\* component is in the document, also when the calls overlap.
C21_AtMostOneRender ==
    Len(promises) = 1 => Rendered(Co) <= 1 /\ Cardinality(Attached) <= 1

\* C22: beforeFirstRender is called by at most one renderTo call of a component,
\* over all sequences of renderTo calls (overlapping, failing) and destroy calls.
C22_BeforeFirstRenderOnce ==
    Cardinality({r \in DOMAIN renderings : renderings[r].first}) <= 1

\* a second renderTo call was made while the first awaited beforeFirstRender: both
\* have rendered, only the first called beforeFirstRender
C22_Witness ==
    /\ Len(renderings) = 2
    /\ renderings[1].first /\ ~renderings[2].first
    /\ renderings[1].pc = "returned" /\ renderings[2].pc = "returned"
    /\ Len(promises) = 1

\* C27 (as the specification states): the mapping getUrlParams returns has exactly
\* the keys written in the query string of the url, none for a url without a query
\* string, and the value of a key is text of the query string: the decoded value
\* of its last segment, which is empty for a key written without "=".
C27_ExactlyTheKeysOfTheQuery ==
    (returned # <<>> /\ returned[1].status = "returned") =>
        /\ DOMAIN returned[1].params = {composed[i].key : i \in 1..Len(composed)}
        /\ \A i \in 1..Len(composed) :
              LET k == composed[i].key
              IN  k \in DOMAIN returned[1].params =>
                      returned[1].params[k] = composed[LastOccurrence(composed, k)].value.means

\* the log entries this step adds
Logged == (Len(log) + 1)..Len(log')

\* C23: a handler that throws (or whose promise is rejected) ends the consumer loop
\* in the middle of its drain and the flag stays true for ever: the activation that
\* awaited it stops without touching the queue, and from the failure on no
\* activation is started, no handler is called, no dispatch ends, and every
\* enqueueCurrentRoute call only appends its snapshot to the queue.
C23_FailureLeavesFlagSet ==
    /\ [](failed # {} => routing)
    /\ [][ failed # {} =>
              /\ Len(loops') = Len(loops)
              /\ \A l \in 1..Len(loops) :
                    loops'[l] # loops[l] =>
                        /\ loops[l].pc = "awaitHandler"
                        /\ loops'[l].pc = "aborted"
                        /\ routingQueue' = routingQueue
              /\ \A p \in Logged : log'[p].type \notin {"start", "routed"}
              /\ Len(captured') > Len(captured) =>
                    /\ Len(captured') = Len(captured) + 1
                    /\ routingQueue' =
                          Append(routingQueue, [loc |-> serialize(Location(address')),
                                                id |-> Len(captured) + 1])
              /\ Len(routingQueue') >= Len(routingQueue)
         ]_vars

\* the first snapshot's handler failed and its loop stopped; the second snapshot
\* waits in the queue of a router that has nothing left to run, the flag still true
C23_Witness ==
    /\ Len(loops) = 1 /\ loops[1].pc = "aborted"
    /\ failed = {<<1, 1>>}
    /\ routing
    /\ Len(routingQueue) = 1 /\ routingQueue[1].id = 2
    /\ Quiescent
    /\ EventsOf("start", 2) = {}

\* C28: between the runs of its code a router whose flag is false has an empty
\* queue, so an enqueueCurrentRoute call made while the flag is false finds exactly
\* its own snapshot in the queue and starts a loop; handlers, the only callers of
\* router methods inside a run, are called with the flag true.
C28_IdleQueueIsEmpty ==
    /\ [](~routing => isEmpty(routingQueue))
    /\ [][ /\ (~routing /\ Len(captured') > Len(captured)) =>
                 /\ Len(loops') = Len(loops) + 1
                 /\ ~onlyPush([St EXCEPT !.routingQueue =
                                            push(@, [loc |-> serialize(Location(address')),
                                                     id |-> Len(captured) + 1])])
           /\ (\E p \in Logged : log'[p].type = "start") => routing'
         ]_vars

\* the router is idle for the second time: two loops have drained one snapshot each
C28_Witness ==
    /\ ~routing
    /\ Len(loops) = 2 /\ loops[1].pc = "done" /\ loops[2].pc = "done"
    /\ Routed(2)
    /\ EventsOf("start", 1) # {} /\ EventsOf("start", 2) # {}

\* snapshots that have left the queue: an activation holds them, or held them
Dispatched == {log[p].id : p \in DOMAIN log}

\* C29: a snapshot is dispatched at most once. No handler is called twice for the
\* same snapshot and Detour, no dispatch ends twice, a snapshot whose dispatch has
\* begun is no longer in the queue nor held by a second activation, the queue
\* holds no snapshot twice, and the snapshots dispatched and waiting are together
\* as many as the enqueueCurrentRoute calls made.
C29_DispatchedAtMostOnce ==
    [](/\ \A p, q \in DOMAIN log :
             (p # q /\ log[p].type = log[q].type /\ log[p].id = log[q].id) =>
                 log[p].idx # log[q].idx /\ log[p].type # "routed"
       /\ \A id \in Dispatched : ~Pending(id)
       /\ \A i, j \in 1..Len(routingQueue) : i # j => routingQueue[i].id # routingQueue[j].id
       /\ \A k, l \in 1..Len(loops) :
             (k # l /\ loops[k].item # <<>> /\ loops[l].item # <<>>) =>
                 loops[k].item[1].id # loops[l].item[1].id
       /\ Cardinality(Dispatched) + Len(routingQueue) = Len(captured)
       /\ Cardinality(Dispatched) <= Len(captured))

\* a navigateTo and a popstate were made, the second while a handler of the first
\* ran; both snapshots have been dispatched to the end, each handler called once
C29_Witness ==
    /\ Len(captured) = 2 /\ pushes = 1
    /\ Len(loops) = 1
    /\ Routed(1) /\ Routed(2)
    /\ Cardinality(EventsOf("start", 1)) = 1
    /\ Cardinality(EventsOf("start", 2)) = 1
    /\ running = {}

\* the handler calls this step makes
Called == {p \in Logged : log'[p].type = "start"}

\* the enqueueCurrentRoute calls this step makes from inside the handler whose call
\* is logged at p: every call of the step but the one whose snapshot is being
\* dispatched
MadeBy(p) == {n \in (Len(captured) + 1)..Len(captured') : n # log'[p].id}

\* C24: an enqueueCurrentRoute or navigateTo call made by a handler while it is
\* dispatched, in its synchronous part or later while its promise is pending,
\* starts no second loop and does not preempt the dispatch: the snapshot is appended
\* to the queue, the one activation stays suspended on that handler, no other
\* handler is called; and a handler is called for a snapshot only after the
\* dispatch of every earlier snapshot has run to the end of the Detour list, each
\* handler called for it having completed.
C24_ReentrantCallWaits ==
    /\ [](Cardinality(ActiveLoops) <= 1 /\ Cardinality(running) <= 1)
    /\ [](\A p \in DOMAIN log : log[p].type = "start" =>
              \A q \in 1..(p - 1) : log[q].id < log[p].id =>
                  /\ \E r \in q..(p - 1) : log[r].type = "routed" /\ log[r].id = log[q].id
                  /\ log[q].type = "start" =>
                        \E r \in (q + 1)..(p - 1) :
                            log[r].type = "end" /\ log[r].id = log[q].id /\ log[r].idx = log[q].idx)
    /\ [][ /\ Cardinality(Called) <= 1
           /\ \A p \in Called :
                 /\ MadeBy(p) # {} =>
                       urlChangeListeners[log'[p].idx].handler \in ReentrantHandlers
                 /\ \A n \in MadeBy(p) :
                       /\ n = Len(captured')
                       /\ routingQueue'[Len(routingQueue')] =
                             [loc |-> serialize(Location(address')), id |-> n]
                       /\ Len(loops') = Len(loops) + (IF routing THEN 0 ELSE 1)
                       /\ \E l \in 1..Len(loops') :
                             /\ ActiveLoops' = {l}
                             /\ loops'[l].pc = "awaitHandler"
                             /\ loops'[l].item[1].id = log'[p].id
                             /\ loops'[l].idx = log'[p].idx
                             /\ running' = {<<log'[p].id, log'[p].idx>>}
                       /\ EventsOf("start", n)' = {}
           /\ (running # {} /\ Len(captured') > Len(captured)) =>
                 /\ routingQueue' =
                       Append(routingQueue, [loc |-> serialize(Location(address')),
                                             id |-> Len(captured) + 1])
                 /\ UNCHANGED <<routing, loops, running, log>>
         ]_vars

\* a "go" handler called for the first snapshot has navigated to Target while it was
\* dispatched: the activation awaits that handler, the snapshot of Target waits
C24_Witness ==
    /\ Len(loops) = 1 /\ loops[1].pc = "awaitHandler"
    /\ urlChangeListeners[loops[1].idx].handler = "go"
    /\ loops[1].item[1].id = 1
    /\ captured = <<Location("/a"), Location(Target)>>
    /\ pushes = 1
    /\ Len(log) = 1
    /\ Len(routingQueue) = 1 /\ routingQueue[1].id = 2

\* the dispatch of snapshot id had begun when the log had n entries
BegunAt(id, n) == \E p \in 1..n : log[p].id = id

\* the dispatch of snapshot id had run to the end of the list when the log had n entries
FinishedAt(id, n) == \E p \in 1..n : log[p].id = id /\ log[p].type = "routed"

\* the snapshots that waited in the queue when Detour j was registered
WaitingWhenRegistered(j) ==
    {id \in 1..registered[j].captured : ~BegunAt(id, registered[j].log)}

\* the snapshots whose dispatch was suspended on a handler when Detour j was registered
SuspendedWhenRegistered(j) ==
    {id \in 1..registered[j].captured :
        BegunAt(id, registered[j].log) /\ ~FinishedAt(id, registered[j].log)}

\* the snapshots whose dispatch had finished iterating when Detour j was registered
FinishedWhenRegistered(j) ==
    {id \in 1..registered[j].captured : FinishedAt(id, registered[j].log)}

\* the dispatch of snapshot id, now at its end, has gone over Detour j: the iteration
\* reached it, and called its handler exactly if the Detour fires on the snapshot
Evaluated(id, j) ==
    \A q \in EventsOf("routed", id) :
        /\ log[q].idx >= j
        /\ Fires(urlChangeListeners[j], log[q].arg) <=>
              \E a \in 1..(q - 1) : log[a].type = "start" /\ log[a].id = id /\ log[a].idx = j

\* C25: a Detour registered while a drain is in progress is evaluated for every
\* snapshot that waited in the queue at that moment: the dispatch of each of them,
\* once at its end, has gone over the new Detour.
C25_LiveListPerSnapshot ==
    \A j \in DOMAIN registered :
        \A id \in WaitingWhenRegistered(j) :
            /\ registered[j].loops > 0
            /\ Routed(id) => Evaluated(id, j)

\* the second Detour was registered while the first snapshot was being dispatched
\* and the second waited in the queue; its handler has been called for the second
C25_Witness ==
    /\ Len(registered) = 2
    /\ WaitingWhenRegistered(2) = {2}
    /\ SuspendedWhenRegistered(2) = {1}
    /\ Routed(2)
    /\ \E a \in DOMAIN log : log[a].type = "start" /\ log[a].id = 2 /\ log[a].idx = 2
    /\ Len(loops) = 1

\* C30: a Detour registered while the dispatch of a snapshot is suspended on a
\* handler is evaluated in that dispatch; a Detour registered after the dispatch
\* of a snapshot has finished iterating is never called for it; and a navigateTo
\* on an idle router finishes iterating in the call itself exactly if no Detour
\* fires on the new location, so that a Detour registered right after the call is
\* called for it only if an earlier Detour fired.
C30_LiveListWithinDispatch ==
    /\ [](\A j \in DOMAIN registered :
              /\ \A id \in SuspendedWhenRegistered(j) : Routed(id) => Evaluated(id, j)
              /\ \A id \in FinishedWhenRegistered(j) :
                    /\ \A p \in DOMAIN log : ~(log[p].id = id /\ log[p].idx = j)
                    /\ \A q \in EventsOf("routed", id) : log[q].idx < j)
    /\ [][ \A u \in Urls : (NavigateTo(u) /\ ~routing) =>
              LET n == Len(captured) + 1
                  fires == \E i \in DOMAIN urlChangeListeners :
                               Fires(urlChangeListeners[i], serialize(Location(u)))
              IN  /\ fires => \E l \in ActiveLoops' :
                                  loops'[l].pc = "awaitHandler" /\ loops'[l].item[1].id = n
                  /\ ~fires => \E q \in Logged : log'[q].id = n /\ log'[q].type = "routed"
         ]_vars

\* navigateTo was called on a router without Detours and a Detour registered after
\* it: its handler was not called for that snapshot. The next snapshot was
\* suspended on that handler when a second Detour was registered, whose handler
\* was then called for it.
C30_Witness ==
    /\ Len(registered) = 2
    /\ Len(captured) = 2
    /\ pushes = 1 /\ captured[1] = Location("/b?q=1")
    /\ FinishedWhenRegistered(1) = {1}
    /\ EventsOf("start", 1) = {}
    /\ SuspendedWhenRegistered(2) = {2}
    /\ Routed(2)
    /\ \E a \in DOMAIN log : log[a].type = "start" /\ log[a].id = 2 /\ log[a].idx = 2

====
